---- MODULE Spec2Model ----
(***************************************************************************)
(* picsync: the event extraction pipeline of functions/index.js.           *)
(*                                                                         *)
(* Recognised text -> parseEventFromText (regex heuristics, then the       *)
(* optional Gemini enhancement) -> generateCalendarUrlWithGemini ->        *)
(* createGoogleCalendarUrl as the fallback -> the HTTP answer.             *)
(*                                                                         *)
(* JavaScript strings are TLA+ strings, handled character by character;    *)
(* JavaScript values of any type are the tagged records of section 2.      *)
(* A value computed once and used several times is handed on as an         *)
(* operator parameter, so each statement of the source is one step of a    *)
(* chain of operators.                                                     *)
(***************************************************************************)
EXTENDS Integers, Sequences, FiniteSets, TLC

(***************************************************************************)
(* 1. JavaScript string primitives                                         *)
(***************************************************************************)

Digits == {"0", "1", "2", "3", "4", "5", "6", "7", "8", "9"}

LowerAlphabet == "abcdefghijklmnopqrstuvwxyz"

UpperAlphabet == "ABCDEFGHIJKLMNOPQRSTUVWXYZ"

\* White space as String.prototype.trim, parseInt and \s see it.
WhiteSpace == {" ", "\n", "\t", "\r"}

\* The least member of a set of integers, `none` for the empty set.
LeastOf(S, none) == IF S = {} THEN none ELSE CHOOSE i \in S : \A j \in S : i <= j

\* s.charAt(i - 1): the i-th character, "" outside the string.
CharAt(s, i) == IF i >= 1 /\ i <= Len(s) THEN SubSeq(s, i, i) ELSE ""

\* s.substring(a - 1, b): characters a..b, clipped to the string.
Sub(s, a, b) ==
    IF a > b \/ a > Len(s) \/ b < 1 THEN ""
    ELSE SubSeq(s, IF a < 1 THEN 1 ELSE a, IF b > Len(s) THEN Len(s) ELSE b)

\* s.slice(a, -b) for a, b >= 0: drop the first a and the last b characters.
Slice(s, a, b) == Sub(s, a + 1, Len(s) - b)

StartsWithAt(s, p, i) == Sub(s, i, i + Len(p) - 1) = p

StartsWith(s, p) == StartsWithAt(s, p, 1)

\* s.indexOf(p) + 1; 0 when p does not occur.
IndexOf(s, p) == LeastOf({i \in 1..(Len(s) - Len(p) + 1) : StartsWithAt(s, p, i)}, 0)

Includes(s, p) == IndexOf(s, p) > 0

\* The place of the character c in alphabet, 0 when it is not there.
LetterIndex(alphabet, c) ==
    LeastOf({i \in 1..Len(alphabet) : SubSeq(alphabet, i, i) = c}, 0)

LetterAt(alphabet, i, c) == IF i = 0 THEN c ELSE SubSeq(alphabet, i, i)

UpperChar(c) == LetterAt(UpperAlphabet, LetterIndex(LowerAlphabet, c), c)

LowerChar(c) == LetterAt(LowerAlphabet, LetterIndex(UpperAlphabet, c), c)

\* pieces[lo] \o ... \o pieces[hi], halving the range so that the nesting stays
\* shallow on long strings.
RECURSIVE Concat(_, _, _)
Concat(pieces, lo, hi) ==
    IF lo > hi THEN ""
    ELSE IF lo = hi THEN pieces[lo]
    ELSE Concat(pieces, lo, (lo + hi) \div 2) \o Concat(pieces, ((lo + hi) \div 2) + 1, hi)

\* s with every character c replaced by the string F(c).
MapChars(s, F(_)) == Concat([i \in 1..Len(s) |-> F(SubSeq(s, i, i))], 1, Len(s))

ToUpperCase(s) == MapChars(s, UpperChar)

ToLowerCase(s) == MapChars(s, LowerChar)

\* The first position from i on whose character is not in chars; the position
\* after the string (or i, if that is later) when there is none.
FirstOutside(s, i, chars) ==
    LeastOf({j \in i..Len(s) : SubSeq(s, j, j) \notin chars},
            IF i > Len(s) THEN i ELSE Len(s) + 1)

TrimStart(s) == Sub(s, FirstOutside(s, 1, WhiteSpace), Len(s))

\* Up to the last character that is not white space: the first one after which
\* only white space follows.
TrimEnd(s) ==
    Sub(s, 1, LeastOf({j \in 0..Len(s) : FirstOutside(s, j + 1, WhiteSpace) > Len(s)}, 0))

Trim(s) == TrimEnd(TrimStart(s))

\* s.split(sep) for a one-character separator: always at least one part.
RECURSIVE Split(_, _)
SplitAt(s, sep, i) ==
    IF i = 0 THEN <<s>> ELSE <<Sub(s, 1, i - 1)>> \o Split(Sub(s, i + 1, Len(s)), sep)

Split(s, sep) == SplitAt(s, sep, IndexOf(s, sep))

ReplaceAt(s, i, n, r) ==
    IF i = 0 THEN s ELSE Sub(s, 1, i - 1) \o r \o Sub(s, i + n, Len(s))

\* s.replace(p, r) with a string pattern: the first occurrence only.
ReplaceFirst(s, p, r) == ReplaceAt(s, IndexOf(s, p), Len(p), r)

\* s.replace(/c/g, ''): every occurrence of the character c removed.
RemoveAll(s, c) ==
    LET Keep(d) == IF d = c THEN "" ELSE d
    IN  MapChars(s, Keep)

\* s.padStart(2, '0')
PadStart2(s) == IF Len(s) = 0 THEN "00" ELSE IF Len(s) = 1 THEN "0" \o s ELSE s

\* parts.join(sep)
Join(parts, sep) ==
    Concat([i \in 1..Len(parts) |-> IF i = 1 THEN parts[i] ELSE sep \o parts[i]],
           1, Len(parts))

DigitValue(c) == LetterIndex("0123456789", c) - 1

RECURSIVE NatToString(_)
NatToString(n) ==
    IF n < 10 THEN SubSeq("0123456789", n + 1, n + 1)
    ELSE NatToString(n \div 10) \o SubSeq("0123456789", (n % 10) + 1, (n % 10) + 1)

\* A JavaScript number as far as the code computes with one: an integer or NaN.
NaN == [nan |-> TRUE, n |-> 0]

Num(n) == [nan |-> FALSE, n |-> n]

\* Number.prototype.toString
NumberToString(x) ==
    IF x.nan THEN "NaN"
    ELSE IF x.n < 0 THEN "-" \o NatToString(0 - x.n)
    ELSE NatToString(x.n)

\* The length of the longest prefix of s made of digits.
DigitPrefixLen(s) == FirstOutside(s, 1, Digits) - 1

RECURSIVE DigitsValue(_, _)
DigitsValue(s, acc) ==
    IF s = "" THEN acc
    ELSE DigitsValue(Sub(s, 2, Len(s)), 10 * acc + DigitValue(CharAt(s, 1)))

AllDigits(s) == \A i \in 1..Len(s) : SubSeq(s, i, i) \in Digits

DigitsToNumber(digits) == IF digits = "" THEN NaN ELSE Num(DigitsValue(digits, 0))

Signed(negative, x) == IF x.nan \/ ~negative THEN x ELSE Num(0 - x.n)

ParseDigits(body) == DigitsToNumber(Sub(body, 1, DigitPrefixLen(body)))

ParseSigned(t) ==
    Signed(CharAt(t, 1) = "-",
           ParseDigits(IF CharAt(t, 1) \in {"-", "+"} THEN Sub(t, 2, Len(t)) ELSE t))

\* parseInt(s): leading white space skipped, an optional sign, then the longest
\* run of decimal digits; NaN when there is no digit.
ParseInt(s) == ParseSigned(TrimStart(s))

(***************************************************************************)
(* 2. JavaScript values and JSON.parse                                     *)
(*                                                                         *)
(* A value is [t, v, kv]: t its type tag, v its text (a string's content,  *)
(* a number's or boolean's literal), kv the <<key, value>> pairs of an     *)
(* object in source order, or the items of an array under the key "".      *)
(***************************************************************************)

Undefined == [t |-> "undefined", v |-> "", kv |-> <<>>]

Null == [t |-> "null", v |-> "", kv |-> <<>>]

Str(s) == [t |-> "str", v |-> s, kv |-> <<>>]

NumLit(s) == [t |-> "num", v |-> s, kv |-> <<>>]

BoolLit(s) == [t |-> "bool", v |-> s, kv |-> <<>>]

Obj(pairs) == [t |-> "obj", v |-> "", kv |-> pairs]

Arr(pairs) == [t |-> "arr", v |-> "", kv |-> pairs]

\* ToBoolean: what `x || y`, `if (x)` and `!x` test.
Truthy(val) ==
    /\ val.t \notin {"undefined", "null"}
    /\ ~(val.t = "str" /\ val.v = "")
    /\ ~(val.t = "num" /\ val.v \in {"0", "-0"})
    /\ ~(val.t = "bool" /\ val.v = "false")

\* a || b
OrElse(a, b) == IF Truthy(a) THEN a ELSE b

\* val[key] for a value that is neither null nor undefined: an object's own
\* property (the last of duplicate keys, as JSON.parse keeps it), undefined on
\* every other type for the keys this program reads.
Get(val, key) ==
    LET hits == {i \in 1..Len(val.kv) : val.kv[i][1] = key}
    IN  IF val.t # "obj" \/ hits = {}
        THEN Undefined
        ELSE val.kv[CHOOSE i \in hits : \A j \in hits : j <= i][2]

\* String(val), which is also what a template literal and
\* encodeURIComponent apply to their argument.
RECURSIVE ToJSString(_)
ToJSString(val) ==
    IF val.t = "str" THEN val.v
    ELSE IF val.t = "num" THEN (IF val.v = "-0" THEN "0" ELSE val.v)
    ELSE IF val.t = "bool" THEN val.v
    ELSE IF val.t = "null" THEN "null"
    ELSE IF val.t = "undefined" THEN "undefined"
    ELSE IF val.t = "obj" THEN "[object Object]"
    ELSE Join([i \in 1..Len(val.kv) |->
                  IF val.kv[i][2].t \in {"null", "undefined"}
                  THEN ""
                  ELSE ToJSString(val.kv[i][2])], ",")

SkipWs(s, i) == FirstOutside(s, i, WhiteSpace)

ParseFail == [ok |-> FALSE, val |-> Undefined, next |-> 0]

ParseOk(val, next) == [ok |-> TRUE, val |-> val, next |-> next]

\* The characters a backslash may introduce in the replies modelled here, with
\* the character each stands for.
UnescapeChar(c) ==
    IF c = "n" THEN "\n" ELSE IF c = "t" THEN "\t" ELSE IF c = "r" THEN "\r" ELSE c

\* The rest of a JSON string whose opening quote precedes position i; j is the
\* next quote, backslash or control character (0: none).
RECURSIVE ScanString(_, _, _)
ScanTo(s, i, acc, j) ==
    IF j = 0 \/ CharAt(s, j) \in {"\n", "\t", "\r"} THEN ParseFail
    ELSE IF CharAt(s, j) = "\"" THEN ParseOk(Str(acc \o Sub(s, i, j - 1)), j + 1)
    ELSE IF CharAt(s, j + 1) \in {"\"", "\\", "/", "n", "t", "r"}
    THEN ScanString(s, j + 2, acc \o Sub(s, i, j - 1) \o UnescapeChar(CharAt(s, j + 1)))
    ELSE ParseFail

ScanString(s, i, acc) ==
    ScanTo(s, i, acc,
           LeastOf({j \in i..Len(s) : SubSeq(s, j, j) \in {"\"", "\\", "\n", "\t", "\r"}}, 0))

\* A JSON integer literal at position i: -?(0|[1-9][0-9]*); k digits from start.
NumberOfLen(s, i, start, k) ==
    IF k = 0 \/ (k > 1 /\ CharAt(s, start) = "0")
    THEN ParseFail
    ELSE ParseOk(NumLit(Sub(s, i, start + k - 1)), start + k)

NumberFrom(s, i, start) == NumberOfLen(s, i, start, DigitPrefixLen(Sub(s, start, Len(s))))

ScanNumber(s, i) == NumberFrom(s, i, IF CharAt(s, i) = "-" THEN i + 1 ELSE i)

RECURSIVE ParseValue(_, _)
RECURSIVE ParseMembers(_, _, _)
RECURSIVE ParseElements(_, _, _)

\* The value that starts at position i, no white space before it.
ValueAt(s, i) ==
    IF CharAt(s, i) = "\"" THEN ScanString(s, i + 1, "")
    ELSE IF CharAt(s, i) = "{"
    THEN IF CharAt(s, SkipWs(s, i + 1)) = "}"
         THEN ParseOk(Obj(<<>>), SkipWs(s, i + 1) + 1)
         ELSE ParseMembers(s, i + 1, <<>>)
    ELSE IF CharAt(s, i) = "["
    THEN IF CharAt(s, SkipWs(s, i + 1)) = "]"
         THEN ParseOk(Arr(<<>>), SkipWs(s, i + 1) + 1)
         ELSE ParseElements(s, i + 1, <<>>)
    ELSE IF StartsWithAt(s, "null", i) THEN ParseOk(Null, i + 4)
    ELSE IF StartsWithAt(s, "true", i) THEN ParseOk(BoolLit("true"), i + 4)
    ELSE IF StartsWithAt(s, "false", i) THEN ParseOk(BoolLit("false"), i + 5)
    ELSE IF CharAt(s, i) \in Digits \cup {"-"} THEN ScanNumber(s, i)
    ELSE ParseFail

ParseValue(s, i) == ValueAt(s, SkipWs(s, i))

\* After a pair or an item at j: a comma and more, or the closing bracket.
MemberNext(s, j, got) ==
    IF CharAt(s, j) = "," THEN ParseMembers(s, j + 1, got)
    ELSE IF CharAt(s, j) = "}" THEN ParseOk(Obj(got), j + 1)
    ELSE ParseFail

MemberValue(s, name, val, acc) ==
    IF ~val.ok THEN ParseFail
    ELSE MemberNext(s, SkipWs(s, val.next), acc \o << <<name, val.val>> >>)

MemberColon(s, key, acc) ==
    IF ~key.ok \/ CharAt(s, SkipWs(s, key.next)) # ":" THEN ParseFail
    ELSE MemberValue(s, key.val.v, ParseValue(s, SkipWs(s, key.next) + 1), acc)

MemberKey(s, i, acc) ==
    IF CharAt(s, i) # "\"" THEN ParseFail
    ELSE MemberColon(s, ScanString(s, i + 1, ""), acc)

\* "key": value pairs up to the closing brace; a comma must be followed by
\* another pair.
ParseMembers(s, i, acc) == MemberKey(s, SkipWs(s, i), acc)

ElementNext(s, j, got) ==
    IF CharAt(s, j) = "," THEN ParseElements(s, j + 1, got)
    ELSE IF CharAt(s, j) = "]" THEN ParseOk(Arr(got), j + 1)
    ELSE ParseFail

ElementValue(s, val, acc) ==
    IF ~val.ok THEN ParseFail
    ELSE ElementNext(s, SkipWs(s, val.next), acc \o << <<"", val.val>> >>)

ParseElements(s, i, acc) == ElementValue(s, ParseValue(s, i), acc)

WholeText(s, r) ==
    IF r.ok /\ SkipWs(s, r.next) = Len(s) + 1
    THEN [ok |-> TRUE, val |-> r.val]
    ELSE [ok |-> FALSE, val |-> Undefined]

\* JSON.parse(s): [ok |-> FALSE] stands for the SyntaxError it throws.
JSONParse(s) == WholeText(s, ParseValue(s, 1))

(***************************************************************************)
(* 3. Regular expressions as parseEventFromText uses them                  *)
(*                                                                         *)
(* A pattern is a sequence of atoms, matched with backtracking in the      *)
(* engine's order: a quantified character class takes as many characters   *)
(* as it can first, an alternation tries its literals left to right.       *)
(***************************************************************************)

\* [a-zA-Z]
AnyLetters ==
    {SubSeq(LowerAlphabet, i, i) : i \in 1..26} \cup {SubSeq(UpperAlphabet, i, i) : i \in 1..26}

\* \w
WordChars == Digits \cup AnyLetters \cup {"_"}

\* A character class repeated lo..hi times, greedy.
Class(chars, lo, hi) ==
    [k |-> "set", chars |-> chars, lo |-> lo, hi |-> hi, lits |-> <<>>, ci |-> FALSE]

\* (?:a|b|...), compared without regard to case when ci.
Alt(lits, ci) ==
    [k |-> "alt", chars |-> {}, lo |-> 0, hi |-> 0, lits |-> lits, ci |-> ci]

\* \b
WordBoundary ==
    [k |-> "wb", chars |-> {}, lo |-> 0, hi |-> 0, lits |-> <<>>, ci |-> FALSE]

\* The number of characters from pos on that lie in chars, at most cap.
RunLen(s, pos, chars, cap) ==
    IF FirstOutside(s, pos, chars) - pos > cap THEN cap ELSE FirstOutside(s, pos, chars) - pos

LitMatches(s, pos, lit, ci) ==
    IF ci
    THEN ToLowerCase(Sub(s, pos, pos + Len(lit) - 1)) = ToLowerCase(lit)
    ELSE Sub(s, pos, pos + Len(lit) - 1) = lit

\* The position after the first match (in backtracking order) of atoms k.. at
\* pos, or 0 when there is none.
RECURSIVE MatchFrom(_, _, _, _)
RECURSIVE TryCounts(_, _, _, _, _)
RECURSIVE TryLits(_, _, _, _, _)

FirstOf(r, rest) == IF r > 0 THEN r ELSE rest

MatchFrom(atoms, k, s, pos) ==
    IF k > Len(atoms) THEN pos
    ELSE IF atoms[k].k = "wb"
    THEN IF (CharAt(s, pos - 1) \in WordChars) # (CharAt(s, pos) \in WordChars)
         THEN MatchFrom(atoms, k + 1, s, pos)
         ELSE 0
    ELSE IF atoms[k].k = "alt" THEN TryLits(atoms, k, s, pos, 1)
    ELSE TryCounts(atoms, k, s, pos, RunLen(s, pos, atoms[k].chars, atoms[k].hi))

TryCounts(atoms, k, s, pos, n) ==
    IF n < atoms[k].lo THEN 0
    ELSE FirstOf(MatchFrom(atoms, k + 1, s, pos + n), TryCounts(atoms, k, s, pos, n - 1))

TryLits(atoms, k, s, pos, j) ==
    IF j > Len(atoms[k].lits) THEN 0
    ELSE FirstOf(IF LitMatches(s, pos, atoms[k].lits[j], atoms[k].ci)
                 THEN MatchFrom(atoms, k + 1, s, pos + Len(atoms[k].lits[j]))
                 ELSE 0,
                 TryLits(atoms, k, s, pos, j + 1))

MatchAt(atoms, s, start) ==
    IF start = 0
    THEN [found |-> FALSE, text |-> ""]
    ELSE [found |-> TRUE, text |-> Sub(s, start, MatchFrom(atoms, 1, s, start) - 1)]

\* pattern.exec(s): the leftmost match. [found, text]; text is the whole match,
\* which is also capture group 1 in every pattern below (the group spans all
\* but the \b assertions).
RegexMatch(atoms, s) ==
    MatchAt(atoms, s, LeastOf({i \in 1..(Len(s) + 1) : MatchFrom(atoms, 1, s, i) > 0}, 0))

RegexTest(atoms, s) == RegexMatch(atoms, s).found

MonthAbbrevs ==
    <<"Jan", "Feb", "Mar", "Apr", "May", "Jun",
      "Jul", "Aug", "Sep", "Oct", "Nov", "Dec">>

Weekdays ==
    <<"Monday", "Tuesday", "Wednesday", "Thursday", "Friday", "Saturday", "Sunday">>

\* The longest run a starred or plussed class is given here: no input of the
\* model is longer.
Unbounded == 200

datePatterns ==
    << \* /\b(\d{1,2}[/-]\d{1,2}[/-]\d{2,4})\b/
       <<WordBoundary, Class(Digits, 1, 2), Class({"/", "-"}, 1, 1),
         Class(Digits, 1, 2), Class({"/", "-"}, 1, 1), Class(Digits, 2, 4),
         WordBoundary>>,
       \* /\b(\d{1,2}\s+(?:Jan|...|Dec)[a-z]*\s+\d{2,4})\b/i
       <<WordBoundary, Class(Digits, 1, 2), Class(WhiteSpace, 1, Unbounded),
         Alt(MonthAbbrevs, TRUE), Class(AnyLetters, 0, Unbounded),
         Class(WhiteSpace, 1, Unbounded), Class(Digits, 2, 4), WordBoundary>>,
       \* /\b((?:Monday|...|Sunday)[,\s]+\d{1,2}\s+(?:Jan|...|Dec)[a-z]*)\b/i
       <<WordBoundary, Alt(Weekdays, TRUE),
         Class(WhiteSpace \cup {","}, 1, Unbounded), Class(Digits, 1, 2),
         Class(WhiteSpace, 1, Unbounded), Alt(MonthAbbrevs, TRUE),
         Class(AnyLetters, 0, Unbounded), WordBoundary>> >>

timePatterns ==
    << \* /\b(\d{1,2}:\d{2}\s*(?:AM|PM|am|pm))\b/
       <<WordBoundary, Class(Digits, 1, 2), Class({":"}, 1, 1), Class(Digits, 2, 2),
         Class(WhiteSpace, 0, Unbounded), Alt(<<"AM", "PM", "am", "pm">>, FALSE),
         WordBoundary>>,
       \* /\b(\d{1,2}\s*(?:AM|PM|am|pm))\b/
       <<WordBoundary, Class(Digits, 1, 2), Class(WhiteSpace, 0, Unbounded),
         Alt(<<"AM", "PM", "am", "pm">>, FALSE), WordBoundary>>,
       \* /\b(\d{1,2}:\d{2})\b/
       <<WordBoundary, Class(Digits, 1, 2), Class({":"}, 1, 1), Class(Digits, 2, 2),
         WordBoundary>> >>

\* /\d{1,2}[:/]\d{2}/, which disqualifies a title candidate.
clockLikePattern ==
    <<Class(Digits, 1, 2), Class({":", "/"}, 1, 1), Class(Digits, 2, 2)>>

locationKeywords ==
    <<"at ", "location:", "venue:", "room ", "building", "address:", "place:">>

(***************************************************************************)
(* 4. CalendarEvent, the heuristic extraction and the two Gemini steps     *)
(***************************************************************************)

\* new CalendarEvent(). gemini_used and geminiData are the properties
\* _gemini_used and _geminiData, FALSE and Undefined while they are not set.
CalendarEvent ==
    [title |-> Str(""), date |-> Str(""), time |-> Str(""), location |-> Str(""),
     description |-> Str(""), duration |-> Str("1 hour"),
     gemini_used |-> FALSE, geminiData |-> Undefined]

\* The six fields the constructor declares.
EventFields == {"title", "date", "time", "location", "description", "duration"}

NonEmpty(line) == line # ""

TrimEach(raw) == [i \in 1..Len(raw) |-> Trim(raw[i])]

\* text.split('\n').map(line => line.trim()).filter(line => line)
TextLines(text) == SelectSeq(TrimEach(Split(text, "\n")), NonEmpty)

\* seq.slice(0, 3)
FirstThree(seq) == SubSeq(seq, 1, IF Len(seq) < 3 THEN Len(seq) ELSE 3)

FirstOr(seq, default) == IF Len(seq) > 0 THEN seq[1] ELSE default

\* The first pattern of the list that matches, with what it captured.
RECURSIVE FirstPatternMatch(_, _, _)
MatchOrNext(m, patterns, s, k) ==
    IF m.found THEN m.text ELSE FirstPatternMatch(patterns, s, k + 1)

FirstPatternMatch(patterns, s, k) ==
    IF k > Len(patterns) THEN ""
    ELSE MatchOrNext(RegexMatch(patterns[k], s), patterns, s, k)

\* patterns.some(pattern => pattern.test(s))
SomePatternTests(patterns, s) ==
    \E k \in 1..Len(patterns) : RegexTest(patterns[k], s)

ContainsKeyword(lineLower) ==
    \E k \in 1..Len(locationKeywords) : Includes(lineLower, locationKeywords[k])

HasLocationKeyword(line) == ContainsKeyword(ToLowerCase(line))

\* A title candidate: longer than five characters and without a clock or date
\* fragment.
Substantial(line) == Len(line) > 5 /\ ~RegexTest(clockLikePattern, line)

TitleOf(lines) ==
    IF Len(lines) = 0 THEN ""
    ELSE FirstOr(SelectSeq(FirstThree(lines), Substantial), lines[1])

LocationOf(lines) == FirstOr(SelectSeq(lines, HasLocationKeyword), "")

\* The description without its limit of three lines.
DescriptionWithoutLimit(lines, title, location) ==
    LET Unused(line) ==
            /\ line # title
            /\ ~SomePatternTests(datePatterns, line)
            /\ ~SomePatternTests(timePatterns, line)
            /\ line # location
    IN  Join(SelectSeq(lines, Unused), "\n")

\* Up to three lines that are not the title, hold no date and no time, and are
\* not the location.
DescriptionOf(lines, title, location) ==
    LET Unused(line) ==
            /\ line # title
            /\ ~SomePatternTests(datePatterns, line)
            /\ ~SomePatternTests(timePatterns, line)
            /\ line # location
    IN  Join(FirstThree(SelectSeq(lines, Unused)), "\n")

EventOfParts(lines, title, date, time, location) ==
    [CalendarEvent EXCEPT
        !.title = Str(title),
        !.date = Str(date),
        !.time = Str(time),
        !.location = Str(location),
        !.description = Str(DescriptionOf(lines, title, location))]

EventOfLines(text, lines) ==
    EventOfParts(lines, TitleOf(lines), FirstPatternMatch(datePatterns, text, 1),
                 FirstPatternMatch(timePatterns, text, 1), LocationOf(lines))

\* The baseline event parseEventFromText builds before it turns to Gemini,
\* from the text already trimmed.
HeuristicEvent(text) == EventOfLines(text, TextLines(text))

\* What one generateContent round trip can come to: the call rejects
\* ("reject"), the response's text() throws ("blocked"), or text is returned.
Rejected == [kind |-> "reject", text |-> ""]

Blocked == [kind |-> "blocked", text |-> ""]

Answer(s) == [kind |-> "text", text |-> s]

\* The code fence the code strips. TLA+ strings cannot hold a backquote, so
\* '~' stands for it in every reply of the model.
Fence == "~~~"

Unfenced(responseText) ==
    IF StartsWith(responseText, Fence \o "json") THEN Slice(responseText, 7, 3)
    ELSE IF StartsWith(responseText, Fence) THEN Slice(responseText, 3, 3)
    ELSE responseText

\* response.text().trim() with a leading fence and the last three characters
\* dropped.
StripFence(raw) == Unfenced(Trim(raw))

\* The enhanced event without line 115, the payload left off.
EnhancedWithoutPayload(basicEvent, geminiData) ==
    [title       |-> OrElse(Get(geminiData, "title"), basicEvent.title),
     date        |-> OrElse(Get(geminiData, "date"), basicEvent.date),
     time        |-> IF Truthy(Get(geminiData, "start_time"))
                     THEN Get(geminiData, "start_time")
                     ELSE OrElse(Get(geminiData, "time"), basicEvent.time),
     location    |-> OrElse(Get(geminiData, "location"), basicEvent.location),
     description |-> OrElse(Get(geminiData, "description"), basicEvent.description),
     duration    |-> OrElse(Get(geminiData, "duration"), basicEvent.duration),
     gemini_used |-> TRUE,
     geminiData  |-> Undefined]

\* The event built from what JSON.parse returned: every field is Gemini's
\* value when that is truthy and the baseline's otherwise.
\* The merge without the legacy `time` member of the reply.
EnhancedWithoutLegacyTime(basicEvent, geminiData) ==
    [title       |-> OrElse(Get(geminiData, "title"), basicEvent.title),
     date        |-> OrElse(Get(geminiData, "date"), basicEvent.date),
     time        |-> OrElse(Get(geminiData, "start_time"), basicEvent.time),
     location    |-> OrElse(Get(geminiData, "location"), basicEvent.location),
     description |-> OrElse(Get(geminiData, "description"), basicEvent.description),
     duration    |-> OrElse(Get(geminiData, "duration"), basicEvent.duration),
     gemini_used |-> TRUE,
     geminiData  |-> geminiData]

EnhancedEvent(basicEvent, geminiData) ==
    [title       |-> OrElse(Get(geminiData, "title"), basicEvent.title),
     date        |-> OrElse(Get(geminiData, "date"), basicEvent.date),
     time        |-> IF Truthy(Get(geminiData, "start_time"))
                     THEN Get(geminiData, "start_time")
                     ELSE OrElse(Get(geminiData, "time"), basicEvent.time),
     location    |-> OrElse(Get(geminiData, "location"), basicEvent.location),
     description |-> OrElse(Get(geminiData, "description"), basicEvent.description),
     duration    |-> OrElse(Get(geminiData, "duration"), basicEvent.duration),
     gemini_used |-> TRUE,
     geminiData  |-> geminiData]

\* The inner try without its catch: whatever JSON.parse left is used.
EnhancedWithoutCatch(basicEvent, parsed) == EnhancedEvent(basicEvent, parsed.val)

\* The inner try: reading a property of null throws a TypeError, caught like
\* a SyntaxError of JSON.parse.
EnhancedFromParse(basicEvent, parsed) ==
    IF ~parsed.ok \/ parsed.val.t = "null" THEN basicEvent
    ELSE EnhancedEvent(basicEvent, parsed.val)

\* The body of enhanceEventWithGemini once geminiClient is known to be set
\* and the round trip has come to `reply`.
enhanceEventWithGemini(basicEvent, reply) ==
    IF reply.kind # "text" THEN basicEvent
    ELSE EnhancedFromParse(basicEvent, JSONParse(StripFence(reply.text)))

baseUrl == "https://calendar.google.com/calendar/render?action=TEMPLATE"

\* (data && data.url && String(data.url).trim()), "" when that is falsy.
UrlOfData(data) ==
    IF Truthy(data) /\ Truthy(Get(data, "url"))
    THEN Trim(ToJSString(Get(data, "url")))
    ELSE ""

AcceptedUrl(url) ==
    IF url # "" /\ StartsWith(url, baseUrl) /\ Includes(url, "dates=")
    THEN Str(url)
    ELSE Null

UrlFromParse(parsed) == IF ~parsed.ok THEN Null ELSE AcceptedUrl(UrlOfData(parsed.val))

\* The body of generateCalendarUrlWithGemini once geminiClient is known to be
\* set and the round trip has come to `reply`: the URL, or Null.
generateCalendarUrlWithGemini(reply) ==
    IF reply.kind # "text" THEN Null
    ELSE UrlFromParse(JSONParse(StripFence(reply.text)))

(***************************************************************************)
(* 5. The Date built-in, as far as createGoogleCalendarUrl uses it         *)
(*                                                                         *)
(* A clock is what the process sees when it runs a step: today, the UTC    *)
(* calendar date <<y, m, d>>; offset, the hours local time is ahead of     *)
(* UTC; gap, whether local clocks jump from 02:00 to 03:00 today.          *)
(***************************************************************************)

IsLeapYear(y) == (y % 4 = 0 /\ y % 100 # 0) \/ y % 400 = 0

DaysInMonth(y, m) ==
    IF m = 2 THEN (IF IsLeapYear(y) THEN 29 ELSE 28)
    ELSE IF m \in {4, 6, 9, 11} THEN 30
    ELSE 31

\* MakeDay for a month in 1..12 and a day in 1..31: days past the end of the
\* month run into the next month.
NormalizeDate(y, m, d) ==
    IF d <= DaysInMonth(y, m) THEN <<y, m, d>>
    ELSE IF m = 12 THEN <<y + 1, 1, d - DaysInMonth(y, m)>>
    ELSE <<y, m + 1, d - DaysInMonth(y, m)>>

PreviousDay(ymd) ==
    IF ymd[3] > 1 THEN <<ymd[1], ymd[2], ymd[3] - 1>>
    ELSE IF ymd[2] > 1 THEN <<ymd[1], ymd[2] - 1, DaysInMonth(ymd[1], ymd[2] - 1)>>
    ELSE <<ymd[1] - 1, 12, 31>>

PadLeft(s, n) == IF Len(s) >= n THEN s ELSE SubSeq("0000", 1, n - Len(s)) \o s

\* date.toISOString().split('T')[0]
IsoDateString(ymd) ==
    PadLeft(NatToString(ymd[1]), 4) \o "-" \o PadLeft(NatToString(ymd[2]), 2)
        \o "-" \o PadLeft(NatToString(ymd[3]), 2)

\* The month a word names to the legacy date parser: its first three letters
\* decide, whatever their case.
MonthOfPrefix(prefix) ==
    LeastOf({k \in 1..12 : Len(prefix) = 3 /\ prefix = ToLowerCase(MonthAbbrevs[k])}, 0)

MonthOfWord(w) == MonthOfPrefix(ToLowerCase(Sub(w, 1, 3)))

YearOf(n, digits) == IF digits > 2 THEN n ELSE IF n < 50 THEN 2000 + n ELSE 1900 + n

\* A two-digit year is read as 20xx below 50 and as 19xx from 50 on.
LegacyYear(text) == YearOf(DigitsValue(text, 0), Len(text))

\* The words and numbers of a date phrase: runs of letters and runs of digits,
\* with the white space, commas and slashes between them dropped.
RECURSIVE DateTokens(_)
TokensFrom(s, n) ==
    IF n > 0 THEN <<Sub(s, 1, n)>> \o DateTokens(Sub(s, n + 1, Len(s)))
    ELSE IF CharAt(s, 1) \in WhiteSpace \cup {",", "/"} THEN DateTokens(Sub(s, 2, Len(s)))
    ELSE <<"?">>

DateTokens(s) ==
    IF s = "" THEN <<>>
    ELSE TokensFrom(s, IF CharAt(s, 1) \in Digits
                       THEN FirstOutside(s, 1, Digits) - 1
                       ELSE FirstOutside(s, 1, AnyLetters) - 1)

LocalDate(y, m, d) ==
    IF m \in 1..12 /\ d \in 1..31
    THEN [valid |-> TRUE, ymd |-> NormalizeDate(y, m, d)]
    ELSE [valid |-> FALSE, ymd |-> <<0, 0, 0>>]

IsNumber(w) == w # "" /\ AllDigits(w)

\* The date three tokens spell: month word first, month word second, or
\* month/day/year in numbers.
DateOfTokens(tk, m1, m2) ==
    IF m1 > 0 /\ IsNumber(tk[2]) /\ IsNumber(tk[3])
    THEN LocalDate(LegacyYear(tk[3]), m1, DigitsValue(tk[2], 0))
    ELSE IF IsNumber(tk[1]) /\ m2 > 0 /\ IsNumber(tk[3])
    THEN LocalDate(LegacyYear(tk[3]), m2, DigitsValue(tk[1], 0))
    ELSE IF IsNumber(tk[1]) /\ IsNumber(tk[2]) /\ IsNumber(tk[3])
    THEN LocalDate(LegacyYear(tk[3]), DigitsValue(tk[1], 0), DigitsValue(tk[2], 0))
    ELSE LocalDate(0, 0, 0)

PhraseOfTokens(tk) ==
    IF Len(tk) # 3 THEN LocalDate(0, 0, 0)
    ELSE DateOfTokens(tk, MonthOfWord(tk[1]), MonthOfWord(tk[2]))

\* new Date(s) for the phrases the model feeds it: "Oct 3, 2025",
\* "October 3 2025", "3 Oct 2025" and "10/03/2025" give local midnight of that
\* day; anything else here (no number, an unknown word, stray characters) gives
\* an Invalid Date.
ParseDatePhrase(s) == PhraseOfTokens(DateTokens(Trim(s)))

IsoOfLocal(local, clock) ==
    [valid |-> local.valid,
     text  |-> IF ~local.valid THEN ""
               ELSE IF clock.offset > 0 THEN IsoDateString(PreviousDay(local.ymd))
               ELSE IsoDateString(local.ymd)]

\* new Date(s).toISOString().split('T')[0], with isNaN(getTime()) as ~valid:
\* local midnight falls on the previous UTC day when local time is ahead of UTC.
ParsedIsoDate(s, clock) == IsoOfLocal(ParseDatePhrase(s), clock)

\* Minutes of the local day lost to a clock change are moved past it.
PastGap(minutes, clock) ==
    IF clock.gap /\ minutes >= 120 /\ minutes < 180 THEN minutes + 60 ELSE minutes

\* The hour added by the second setHours, to a time already set.
AddHour(first, sameDay, clock) ==
    IF sameDay /\ first + 60 < 1440 THEN PastGap(first + 60, clock) ELSE (first + 60) % 1440

SetMinutes(total, clock) ==
    AddHour(IF total >= 0 /\ total < 1440 THEN PastGap(total, clock) ELSE total % 1440,
            total >= 0 /\ total < 1440, clock)

HoursMinutes(minutes) == <<minutes \div 60, minutes % 60>>

\* const d = new Date(); d.setHours(h, m); d.setHours(d.getHours() + 1);
\* then <<d.getHours(), d.getMinutes()>>. h and m are integers.
HourLater(h, m, clock) == HoursMinutes(SetMinutes(h * 60 + m, clock))

(***************************************************************************)
(* 6. createGoogleCalendarUrl                                              *)
(***************************************************************************)

\* The ASCII characters from 0x20 to 0x5F and from 0x61 to 0x7E, in order.
AsciiLow == " !\"#$%&'()*+,-./0123456789:;<=>?@ABCDEFGHIJKLMNOPQRSTUVWXYZ[\\]^_"

AsciiHigh == "abcdefghijklmnopqrstuvwxyz{|}~"

CodeFrom(low, high) == IF low > 0 THEN 31 + low ELSE 96 + high

CharCode(c) ==
    IF c = "\t" THEN 9 ELSE IF c = "\n" THEN 10 ELSE IF c = "\r" THEN 13
    ELSE CodeFrom(LetterIndex(AsciiLow, c), LetterIndex(AsciiHigh, c))

HexByte(n) ==
    SubSeq("0123456789ABCDEF", (n \div 16) + 1, (n \div 16) + 1)
        \o SubSeq("0123456789ABCDEF", (n % 16) + 1, (n % 16) + 1)

\* The characters encodeURIComponent leaves alone.
Unreserved == Digits \cup AnyLetters \cup {"-", "_", ".", "!", "~", "*", "'", "(", ")"}

\* encodeURIComponent on ASCII text.
PercentEncoded(c) == IF c \in Unreserved THEN c ELSE "%" \o HexByte(CharCode(c))

encodeURIComponent(s) == MapChars(s, PercentEncoded)

Thrown == [thrown |-> TRUE, text |-> ""]

Returned(s) == [thrown |-> FALSE, text |-> s]

\* The hour rule without its special case for 12.
HourRuleWithoutNoon(hour, from, to, add) == IF hour.nan THEN NaN ELSE Num(hour.n + add)

\* `if (hour !== 12) hour += 12` and `if (hour === 12) hour = 0`: from is the
\* hour that is replaced, to the hour it becomes, add what every other hour is
\* raised by. NaN stays NaN.
HourRule(hour, from, to, add) ==
    IF hour.nan THEN NaN ELSE IF hour.n = from THEN Num(to) ELSE Num(hour.n + add)

\* parseInt(digits), the hour rule, then hour.toString().padStart(2, '0').
HourText(digits, from, to, add) ==
    PadStart2(NumberToString(HourRule(ParseInt(digits), from, to, add)))

HourAndMinutes(parts, from, to, add) ==
    HourText(parts[1], from, to, add) \o ":" \o parts[2]

MarkerParts(timePart, from, to, add) ==
    IF Includes(timePart, ":")
    THEN HourAndMinutes(Split(timePart, ":"), from, to, add)
    ELSE HourText(timePart, from, to, add) \o ":00"

\* One marker branch of convertTo24h: the first `marker` removed from the
\* upper-cased text, the rest split at ':'.
MarkerBranch(upper, marker, from, to, add) ==
    MarkerParts(Trim(ReplaceFirst(upper, marker, "")), from, to, add)

ConvertMarked(timeStr, upper) ==
    IF Includes(upper, "PM") THEN MarkerBranch(upper, "PM", 12, 12, 12)
    ELSE IF Includes(upper, "AM") THEN MarkerBranch(upper, "AM", 12, 0, 0)
    ELSE IF Includes(timeStr, ":") THEN timeStr
    ELSE timeStr \o ":00"

ConvertTrimmed(timeStr) == ConvertMarked(timeStr, ToUpperCase(timeStr))

\* convertTo24h(timeStr) for a JavaScript value: a falsy one gives "12:00", a
\* truthy one that is no string has no trim method, so the call throws.
convertTo24h(val) ==
    IF ~Truthy(val) THEN Returned("12:00")
    ELSE IF val.t # "str" THEN Thrown
    ELSE Returned(ConvertTrimmed(Trim(val.v)))

ClockText(hm) == PadStart2(NatToString(hm[1])) \o ":" \o PadStart2(NatToString(hm[2]))

EndFrom(startHour, startMin, clock) ==
    IF startHour.nan \/ startMin.nan THEN "NaN:NaN"
    ELSE ClockText(HourLater(startHour.n, startMin.n, clock))

EndFromParts(parts, clock) ==
    EndFrom(ParseInt(parts[1]), IF Len(parts) > 1 THEN ParseInt(parts[2]) ELSE NaN, clock)

\* The default end time: one hour after start24h on the process's own clock.
defaultEnd24h(start24h, clock) == EndFromParts(Split(start24h, ":"), clock)

IsoFromParts(dateParts) ==
    IF Len(dateParts) = 3
    THEN [thrown |-> FALSE, found |-> TRUE,
          text |-> dateParts[3] \o "-" \o PadStart2(dateParts[1])
                       \o "-" \o PadStart2(dateParts[2])]
    ELSE [thrown |-> FALSE, found |-> FALSE, text |-> ""]

IsoFromDate(parsed) == [thrown |-> FALSE, found |-> parsed.valid, text |-> parsed.text]

\* The isoDate the try block derives from event.date: [thrown, found, text].
\* A date that is a string goes by its '/' or through the Date parser; an array
\* has includes but no split; any other truthy value has no includes at all.
isoDateOf(date, clock) ==
    IF date.t = "str" /\ Includes(date.v, "/") THEN IsoFromParts(Split(date.v, "/"))
    ELSE IF date.t = "str"
            \/ (date.t = "arr" /\ \A i \in 1..Len(date.kv) : date.kv[i][2] # Str("/"))
    THEN IsoFromDate(ParsedIsoDate(ToJSString(date), clock))
    ELSE [thrown |-> TRUE, found |-> FALSE, text |-> ""]

NoDates == [thrown |-> FALSE, path |-> "none", start |-> "", end |-> ""]

Stamps(path, start, end) == [thrown |-> FALSE, path |-> path, start |-> start, end |-> end]

NoonStamps(path, day) == Stamps(path, day \o "T120000", day \o "T130000")

\* The catch block: event.date.replace exists on a string only, so any other
\* date makes the handler of the exception throw in its turn.
Caught(date) ==
    IF date.t = "str"
    THEN NoonStamps("basic", RemoveAll(date.v, "/"))
    ELSE [thrown |-> TRUE, path |-> "none", start |-> "", end |-> ""]

RangeStamps(date, compact, start24h, end24h) ==
    IF end24h.thrown THEN Caught(date)
    ELSE Stamps("range",
                compact \o "T" \o ReplaceFirst(start24h, ":", "") \o "00",
                compact \o "T" \o ReplaceFirst(end24h.text, ":", "") \o "00")

RangeFromStart(date, compact, start24h, endTime, clock) ==
    IF start24h.thrown THEN Caught(date)
    ELSE RangeStamps(date, compact, start24h.text,
                     IF Truthy(endTime) THEN convertTo24h(endTime)
                     ELSE Returned(defaultEnd24h(start24h.text, clock)))

DatesFromIso(date, isoDate, startTime, endTime, clock) ==
    IF isoDate.thrown THEN Caught(date)
    ELSE IF isoDate.found
    THEN RangeFromStart(date, RemoveAll(isoDate.text, "-"), convertTo24h(startTime),
                        endTime, clock)
    ELSE NoonStamps("today", RemoveAll(IsoDateString(clock.today), "-"))

DatesFromData(event, enhancedData, clock) ==
    DatesFromIso(event.date, isoDateOf(event.date, clock),
                 OrElse(Get(enhancedData, "start_time"), event.time),
                 Get(enhancedData, "end_time"), clock)

\* The dates of an event with the current date for an event without a date.
DatesWithTodayFallback(event, clock) ==
    IF ~Truthy(event.date)
    THEN NoonStamps("today", RemoveAll(IsoDateString(clock.today), "-"))
    ELSE DatesFromData(event, OrElse(event.geminiData, Obj(<<>>)), clock)

\* The `if (event.date)` block: which path pushed the dates parameter and the
\* two timestamps pushed, or thrown when the catch block itself throws.
datesOf(event, clock) ==
    IF ~Truthy(event.date) THEN NoDates
    ELSE DatesFromData(event, OrElse(event.geminiData, Obj(<<>>)), clock)

Param(name, val) == <<name \o "=" \o encodeURIComponent(ToJSString(val))>>

\* The timezone read without its default.
TimezoneWithoutDefault(enhancedData) == Get(enhancedData, "timezone")

timezoneOf(enhancedData) == OrElse(Get(enhancedData, "timezone"), Str("America/New_York"))

ParamsOf(event, dates) ==
    (IF Truthy(event.title) THEN Param("text", event.title) ELSE <<>>)
    \o (IF dates.path # "none" THEN <<"dates=" \o dates.start \o "/" \o dates.end>> ELSE <<>>)
    \o (IF Truthy(event.location) THEN Param("location", event.location) ELSE <<>>)
    \o (IF Truthy(event.description) THEN Param("details", event.description) ELSE <<>>)
    \o Param("ctz", timezoneOf(OrElse(event.geminiData, Obj(<<>>))))

UrlOfParams(params) == IF Len(params) > 0 THEN baseUrl \o "&" \o Join(params, "&") ELSE baseUrl

UrlFromDates(event, dates) ==
    [thrown |-> dates.thrown,
     url    |-> IF dates.thrown THEN "" ELSE UrlOfParams(ParamsOf(event, dates)),
     path   |-> dates.path,
     start  |-> dates.start,
     end    |-> dates.end]

\* createGoogleCalendarUrl(event) run under `clock`: thrown, or the URL
\* returned, with the dates path taken and its two timestamps.
createGoogleCalendarUrl(event, clock) == UrlFromDates(event, datesOf(event, clock))

(***************************************************************************)
(* 7. One request through the handler (visionOcr; parseImage's finish      *)
(*    callback runs the same statements)                                   *)
(***************************************************************************)

\* The days a request may see, counted from 8 March 2025; on the second, local
\* clocks five hours behind UTC skip from 02:00 to 03:00.
MaxDay == 3

Offsets == {0 - 5, 0, 2}

ClockAt(day, offset) ==
    [today  |-> NormalizeDate(2025, 3, 7 + day),
     offset |-> offset,
     gap    |-> day = 2 /\ offset < 0]

\* What text detection hands the handler.
Texts ==
    {"",
     "   ",
     "Team Sync\nOct 3, 2025\n2:30 PM to 4:00 PM\nRoom 204",
     "Lunch\n10/03/2025 9:30\nMeet at the cafe\nBring food",
     "  Standup 3 Oct 2025 23:30  ",
     "Party tomorrow\n8 PM",
     "Gala night\nDoors open\nRoom 12\nBring a friend\n7 PM\nWear a hat\nFree snacks"}

\* What the enhancement round trip may come to.
EnhanceReplies ==
    {Rejected,
     Blocked,
     Answer("Sorry, I cannot help with that."),
     Answer("{\"title\": \"Team Sync\", \"date\": \"10/03/2025\",}"),
     Answer("~~~json\n{\"title\": \"Weekly Sync\", \"date\": \"10/03/2025\", "
            \o "\"start_time\": \"2:30 PM\", \"end_time\": \"4:00 PM\", "
            \o "\"timezone\": \"America/Chicago\", \"location\": null, "
            \o "\"description\": \"\", \"duration\": \"90 minutes\", "
            \o "\"confidence\": \"High\"}\n~~~"),
     Answer("~~~\n{\"time\": \"8 PM\", \"date\": \"tomorrow\"}\n~~~"),
     Answer("null"),
     Answer("[]"),
     Answer("42"),
     Answer("{\"date\": 20251003}"),
     Answer("{\"date\": \"10/03/2025\", \"start_time\": 9}"),
     Answer("{\"date\": \"Oct 3, 2025\", \"start_time\": \"11:30 PM\"}"),
     Answer("{\"date\": \"10/03/2025\", \"start_time\": \"3:00 PM\", "
            \o "\"end_time\": \"1:00 PM\"}")}

\* What the URL-authoring round trip may come to.
UrlReplies ==
    {Rejected,
     Blocked,
     Answer("I could not find an event."),
     Answer("null"),
     Answer("{\"url\": null}"),
     Answer("~~~json\n{\"url\": \"" \o baseUrl
            \o "&text=Team%20Sync&dates=20251003T143000/20251003T160000\"}\n~~~"),
     Answer("{\"url\": \"" \o baseUrl \o "&text=Team%20Sync\"}"),
     Answer("{\"url\": \"http://calendar.google.com/calendar/render?action=TEMPLATE"
            \o "&dates=20251003T143000/20251003T160000\"}"),
     Answer("{\"url\": \"  " \o baseUrl \o "&dates=20251003T143000/20251003T160000\"}"),
     Answer("{\"url\": [\"" \o baseUrl \o "&dates=20251003T143000/20251003T160000\"]}")}

\* The label the documentation gives the AI-authored link.
SourceAsDocumented(aiUrl, builderReturned) ==
    IF ~Truthy(aiUrl) /\ builderReturned THEN "builder" ELSE "ai-url"

\* calendarUrlSource as lines 530-534 leave it: 'gemini-url' from its
\* declaration on, 'builder' once createGoogleCalendarUrl has returned.
calendarUrlSourceOf(aiUrl, builderReturned) ==
    IF ~Truthy(aiUrl) /\ builderReturned THEN "builder" ELSE "gemini-url"

\* The value of `built` while createGoogleCalendarUrl has not been called.
NotBuilt == [thrown |-> FALSE, url |-> "", path |-> "unbuilt", start |-> "", end |-> ""]

\* The reply variables while the round trip has not returned.
NoReply == [kind |-> "none", text |-> ""]

VARIABLES
    geminiClient,       \* whether the module-level client was constructed
    day, offset,        \* the process clock: see ClockAt
    pc,                 \* where the request stands
    text,               \* extractedText
    basicEvent,         \* the heuristic event of parseEventFromText
    event,              \* what parseEventFromText returned
    enhanceReply,       \* what the enhancement round trip came to
    urlReply,           \* what the URL round trip came to
    calendarUrl,        \* the handler's calendarUrl: Null or a string value
    calendarUrlSource,  \* the handler's calendarUrlSource, "" before line 530
    built,              \* the outcome of createGoogleCalendarUrl, if called
    response,           \* "none", "success", "no-text" (400) or "error" (500)
    enhanceCalls,       \* generateContent calls made for enhancement
    urlCalls,           \* generateContent calls made for the URL
    requests            \* the requests in flight together, when two are followed

vars ==
    <<requests, geminiClient, day, offset, pc, text, basicEvent, event, enhanceReply, urlReply,
      calendarUrl, calendarUrlSource, built, response, enhanceCalls, urlCalls>>

clock == ClockAt(day, offset)

Idle ==
    /\ basicEvent = CalendarEvent
    /\ event = CalendarEvent
    /\ enhanceReply = NoReply
    /\ urlReply = NoReply
    /\ calendarUrl = Null
    /\ calendarUrlSource = ""
    /\ built = NotBuilt
    /\ response = "none"
    /\ enhanceCalls = 0
    /\ urlCalls = 0

\* The request has its text from extractTextFromImage.
Init ==
    /\ geminiClient \in BOOLEAN
    /\ day \in 1..MaxDay
    /\ offset \in Offsets
    /\ pc = "ocr"
    /\ text \in Texts
    /\ Idle
    /\ requests = <<>>

\* Lines 520-526 with parseEventFromText up to its await: no text is answered
\* with 400; otherwise the heuristic event is built and, with a client, the
\* enhancement call goes out.
ParseEventFromText ==
    /\ pc = "ocr"
    /\ IF text = ""
       THEN /\ response' = "no-text"
            /\ pc' = "done"
            /\ UNCHANGED <<basicEvent, event, enhanceCalls>>
       ELSE /\ basicEvent' = HeuristicEvent(Trim(text))
            /\ response' = response
            /\ IF geminiClient
               THEN /\ enhanceCalls' = enhanceCalls + 1
                    /\ pc' = "enhancing"
                    /\ event' = event
               ELSE /\ event' = basicEvent'
                    /\ pc' = "url"
                    /\ enhanceCalls' = enhanceCalls
    /\ UNCHANGED <<requests, geminiClient, day, offset, text, enhanceReply, urlReply, calendarUrl,
                   calendarUrlSource, built, urlCalls>>

\* An enhancement that calls the collaborator a second time when the first
\* call fails.
EnhanceReturnsOrRetries ==
    /\ pc = "enhancing"
    /\ \E reply \in EnhanceReplies :
          /\ enhanceReply' = reply
          /\ IF reply.kind = "reject" /\ enhanceCalls < 2
             THEN /\ enhanceCalls' = enhanceCalls + 1
                  /\ pc' = "enhancing"
                  /\ event' = event
             ELSE /\ enhanceCalls' = enhanceCalls
                  /\ pc' = "url"
                  /\ event' = enhanceEventWithGemini(basicEvent, reply)
    /\ UNCHANGED <<requests, geminiClient, day, offset, text, basicEvent, urlReply, calendarUrl,
                   calendarUrlSource, built, response, urlCalls>>

\* An enhancement that writes the merged fields into the baseline event it
\* was given and returns that.
EnhanceWritesBaseline ==
    /\ pc = "enhancing"
    /\ \E reply \in EnhanceReplies :
          /\ enhanceReply' = reply
          /\ event' = enhanceEventWithGemini(basicEvent, reply)
    /\ basicEvent' = event'
    /\ pc' = "url"
    /\ UNCHANGED <<requests, geminiClient, day, offset, text, urlReply, calendarUrl,
                   calendarUrlSource, built, response, enhanceCalls, urlCalls>>

\* The enhancement round trip comes to an end and enhanceEventWithGemini
\* returns.
EnhanceReturns ==
    /\ pc = "enhancing"
    /\ \E reply \in EnhanceReplies :
          /\ enhanceReply' = reply
          /\ event' = enhanceEventWithGemini(basicEvent, reply)
    /\ pc' = "url"
    /\ UNCHANGED <<requests, geminiClient, day, offset, text, basicEvent, urlReply, calendarUrl,
                   calendarUrlSource, built, response, enhanceCalls, urlCalls>>

\* generateCalendarUrlWithGemini up to its await: null at once without a
\* client, else the call goes out.
GenerateUrlStarts ==
    /\ pc = "url"
    /\ IF geminiClient
       THEN /\ urlCalls' = urlCalls + 1
            /\ pc' = "authoring"
       ELSE /\ urlCalls' = urlCalls
            /\ pc' = "respond"
    /\ UNCHANGED <<requests, geminiClient, day, offset, text, basicEvent, event, enhanceReply,
                   urlReply, calendarUrl, calendarUrlSource, built, response, enhanceCalls>>

\* The URL round trip comes to an end and generateCalendarUrlWithGemini
\* returns.
GenerateUrlReturns ==
    /\ pc = "authoring"
    /\ \E reply \in UrlReplies :
          /\ urlReply' = reply
          /\ calendarUrl' = generateCalendarUrlWithGemini(reply)
    /\ pc' = "respond"
    /\ UNCHANGED <<requests, geminiClient, day, offset, text, basicEvent, event, enhanceReply,
                   calendarUrlSource, built, response, enhanceCalls, urlCalls>>

\* Lines 530-561: the source is set, the builder is called when there is no
\* URL yet, and the answer is sent: success, or 500 when the builder threw.
Respond ==
    /\ pc = "respond"
    /\ IF Truthy(calendarUrl)
       THEN /\ calendarUrlSource' = calendarUrlSourceOf(calendarUrl, FALSE)
            /\ response' = "success"
            /\ UNCHANGED <<calendarUrl, built>>
       ELSE /\ built' = createGoogleCalendarUrl(event, clock)
            /\ calendarUrlSource' = calendarUrlSourceOf(calendarUrl, ~built'.thrown)
            /\ IF built'.thrown
               THEN /\ calendarUrl' = calendarUrl
                    /\ response' = "error"
               ELSE /\ calendarUrl' = Str(built'.url)
                    /\ response' = "success"
    /\ pc' = "done"
    /\ UNCHANGED <<requests, geminiClient, day, offset, text, basicEvent, event, enhanceReply,
                   urlReply, enhanceCalls, urlCalls>>

\* Midnight passes while a round trip is awaited.
Tick ==
    /\ pc \in {"enhancing", "authoring"}
    /\ day < MaxDay
    /\ day' = day + 1
    /\ UNCHANGED <<requests, geminiClient, offset, pc, text, basicEvent, event, enhanceReply,
                   urlReply, calendarUrl, calendarUrlSource, built, response,
                   enhanceCalls, urlCalls>>

Next ==
    \/ ParseEventFromText
    \/ EnhanceReturns
    \/ GenerateUrlStarts
    \/ GenerateUrlReturns
    \/ Respond
    \/ Tick

Spec == Init /\ [][Next]_vars

\* The handler's own control flow, by the position it is at: the three steps
\* it takes without waiting for the collaborator.
Continues ==
    \/ /\ pc = "ocr"
       /\ pc' = (IF text = "" THEN "done" ELSE IF geminiClient THEN "enhancing" ELSE "url")
    \/ /\ pc = "url"
       /\ pc' = (IF geminiClient THEN "authoring" ELSE "respond")
    \/ /\ pc = "respond"
       /\ pc' = "done"

\* The same request with its scheduling: a continuation of the handler that
\* is ready runs, and time passes; nothing in the code makes a round trip
\* with the collaborator come to an end.
SpecLive ==
    /\ Init
    /\ [][Next]_vars
    /\ WF_pc(Continues)
    /\ WF_vars(Tick)

(***************************************************************************)
(* 8. createGoogleCalendarUrl on its own: the events it may be handed      *)
(***************************************************************************)

\* What event.date may hold: the formats of the prompt and of the heuristics,
\* dates that name no day, and a number as a JSON reply can carry one.
BuilderDates ==
    {Str("10/03/2025"), Str("Oct 3, 2025"), Str("3 Oct 2025"), Str("10/3/25"),
     Str("13/45/2025"), Str("Feb 30, 2025"), Str("10/03"), Str("tomorrow"), Str(""),
     NumLit("20251003")}

\* What the start time may hold.
BuilderTimes ==
    {Str("2:30 PM"), Str("12 AM"), Str("8 PM"), Str("11:30 PM"), Str("23:30"),
     Str("1:30"), Str("9:30"), Str("2:30 PM to 4:00 PM"), Str("9:30&ctz=UTC"), Str(""),
     NumLit("9")}

\* What end_time may hold; Undefined when the reply has none.
BuilderEnds == {Undefined, Null, Str("4:00 PM"), Str("1:00 PM")}

TitledEvent == [CalendarEvent EXCEPT !.title = Str("Team Sync")]

\* The events parseEventFromText can return: a heuristic event, whose fields
\* are strings, or the event enhanced from a reply with these three members.
ReplyOf(date, time, end) ==
    Obj(<< <<"date", date>>, <<"start_time", time>> >>
        \o (IF end = Undefined THEN <<>> ELSE << <<"end_time", end>> >>))

BuilderEvents ==
    {[TitledEvent EXCEPT !.date = d, !.time = t] :
        d \in {x \in BuilderDates : x.t = "str"}, t \in {x \in BuilderTimes : x.t = "str"}}
    \cup {EnhancedEvent(TitledEvent, ReplyOf(d, t, e)) :
            d \in BuilderDates, t \in BuilderTimes, e \in BuilderEnds}

InitBuilder ==
    /\ day \in 1..MaxDay
    /\ offset \in Offsets
    /\ pc = "build"
    /\ event \in BuilderEvents
    /\ geminiClient = event.gemini_used
    /\ text = ""
    /\ basicEvent = TitledEvent
    /\ enhanceReply = NoReply
    /\ urlReply = NoReply
    /\ calendarUrl = Null
    /\ calendarUrlSource = ""
    /\ built = NotBuilt
    /\ response = "none"
    /\ enhanceCalls = 0
    /\ urlCalls = 0
    /\ requests = <<>>

\* createGoogleCalendarUrl(event) is called and returns or throws.
Build ==
    /\ pc = "build"
    /\ built' = createGoogleCalendarUrl(event, clock)
    /\ pc' = "built"
    /\ UNCHANGED <<requests, geminiClient, day, offset, text, basicEvent, event, enhanceReply,
                   urlReply, calendarUrl, calendarUrlSource, response, enhanceCalls,
                   urlCalls>>

NextBuilder == Build

SpecBuilder == InitBuilder /\ [][NextBuilder]_vars

\* The start of a run that hands createGoogleCalendarUrl one of `events`.
InitWith(events) ==
    /\ day \in 1..MaxDay
    /\ offset \in Offsets
    /\ pc = "build"
    /\ event \in events
    /\ geminiClient = event.gemini_used
    /\ text = ""
    /\ basicEvent = TitledEvent
    /\ enhanceReply = NoReply
    /\ urlReply = NoReply
    /\ calendarUrl = Null
    /\ calendarUrlSource = ""
    /\ built = NotBuilt
    /\ response = "none"
    /\ enhanceCalls = 0
    /\ urlCalls = 0
    /\ requests = <<>>

\* Times of day as text: an hour, minutes or none, and a marker or none.
ClockHours == 0..23

ClockMinutes == {"", "00", "30"}

ClockMarkers == {"", " PM", " pm", " Pm", "PM", " AM", " am"}

TimeText(h, mm, marker) ==
    NatToString(h) \o (IF mm = "" THEN "" ELSE ":" \o mm) \o marker

ClockTimes ==
    {TimeText(h, mm, marker) : h \in ClockHours, mm \in ClockMinutes, marker \in ClockMarkers}
        \cup {""}

\* Events dated 10/03/2025 with a start time from ClockTimes: heuristic ones,
\* and enhanced ones whose reply carries an end_time as well.
ClockEvents ==
    {[TitledEvent EXCEPT !.date = Str("10/03/2025"), !.time = Str(t)] : t \in ClockTimes}
    \cup {EnhancedEvent(TitledEvent, ReplyOf(Str("10/03/2025"), Str(t), Str("4 PM"))) :
            t \in ClockTimes}

InitClock == InitWith(ClockEvents)

SpecClock == InitClock /\ [][NextBuilder]_vars

(***************************************************************************)
(* 8b. Two requests in one process: each call of visionOcr has its own     *)
(*     locals; the module-level geminiClient and the process clock are     *)
(*     what the two share. A request gives way to the other at its awaits  *)
(***************************************************************************)

Requesters == 1..2

\* The two shortest texts with an event in them.
PairTexts == {t \in Texts : Len(t) > 3 /\ Len(t) < 30}

PairEnhanceReplies == {r \in EnhanceReplies : r.kind = "reject" \/ StartsWith(r.text, Fence)}

PairUrlReplies == {r \in UrlReplies : r.kind = "reject" \/ StartsWith(r.text, Fence)}

\* The locals of one call of visionOcr that has its text.
Request(fullText) ==
    [pc |-> "ocr", text |-> fullText, basicEvent |-> CalendarEvent, event |-> CalendarEvent,
     enhanceReply |-> NoReply, urlReply |-> NoReply, calendarUrl |-> Null,
     calendarUrlSource |-> "", built |-> NotBuilt, response |-> "none"]

\* parseEventFromText up to its await, with the heuristic event it built.
WithBaseline(req, basic, client) ==
    [req EXCEPT !.basicEvent = basic,
                !.event = IF client THEN req.event ELSE basic,
                !.pc = IF client THEN "enhancing" ELSE "url"]

WithEnhancement(req, reply) ==
    [req EXCEPT !.enhanceReply = reply,
                !.event = enhanceEventWithGemini(req.basicEvent, reply),
                !.pc = "url"]

WithUrlReply(req, reply) ==
    [req EXCEPT !.urlReply = reply,
                !.calendarUrl = generateCalendarUrlWithGemini(reply),
                !.pc = "respond"]

\* Lines 531-561 once createGoogleCalendarUrl has returned or thrown.
WithBuilt(req, builder) ==
    [req EXCEPT !.built = builder,
                !.calendarUrlSource = calendarUrlSourceOf(req.calendarUrl, ~builder.thrown),
                !.calendarUrl = IF builder.thrown THEN req.calendarUrl ELSE Str(builder.url),
                !.response = IF builder.thrown THEN "error" ELSE "success",
                !.pc = "done"]

\* An event kept in one place for all calls: the one the first call holds.
EventOfFirst(reqs, i) == reqs[1].event

\* The event the rest of a call works on: its own local `event`.
EventOf(reqs, i) == reqs[i].event

Responded(req, ownEvent, now) ==
    IF Truthy(req.calendarUrl)
    THEN [req EXCEPT !.calendarUrlSource = calendarUrlSourceOf(req.calendarUrl, FALSE),
                     !.response = "success",
                     !.pc = "done"]
    ELSE WithBuilt(req, createGoogleCalendarUrl(ownEvent, now))

InitPair ==
    /\ geminiClient \in BOOLEAN
    /\ day = 1
    /\ offset \in Offsets
    /\ pc = "pair"
    /\ text = ""
    /\ Idle
    /\ \E first \in PairTexts, second \in PairTexts :
          requests = <<Request(first), Request(second)>>

\* A step of one of the two requests leaves the single request of the other
\* specifications, and what the two share, as they are.
OnlyRequests ==
    UNCHANGED <<geminiClient, day, offset, pc, text, basicEvent, event, enhanceReply,
                urlReply, calendarUrl, calendarUrlSource, built, response, enhanceCalls,
                urlCalls>>

PairParses(i) ==
    /\ OnlyRequests
    /\ requests[i].pc = "ocr"
    /\ requests' = [requests EXCEPT
                       ![i] = WithBaseline(@, HeuristicEvent(Trim(@.text)), geminiClient)]

PairEnhanceReturns(i) ==
    /\ OnlyRequests
    /\ requests[i].pc = "enhancing"
    /\ \E reply \in PairEnhanceReplies :
          requests' = [requests EXCEPT ![i] = WithEnhancement(@, reply)]

PairUrlStarts(i) ==
    /\ OnlyRequests
    /\ requests[i].pc = "url"
    /\ requests' = [requests EXCEPT ![i].pc = IF geminiClient THEN "authoring" ELSE "respond"]

PairUrlReturns(i) ==
    /\ OnlyRequests
    /\ requests[i].pc = "authoring"
    /\ \E reply \in PairUrlReplies :
          requests' = [requests EXCEPT ![i] = WithUrlReply(@, reply)]

PairResponds(i) ==
    /\ OnlyRequests
    /\ requests[i].pc = "respond"
    /\ requests' = [requests EXCEPT ![i] = Responded(@, EventOf(requests, i), clock)]

NextPair ==
    \/ \E i \in Requesters : PairParses(i)
    \/ \E i \in Requesters : PairEnhanceReturns(i)
    \/ \E i \in Requesters : PairUrlStarts(i)
    \/ \E i \in Requesters : PairUrlReturns(i)
    \/ \E i \in Requesters : PairResponds(i)

SpecPair == InitPair /\ [][NextPair]_vars

(***************************************************************************)
(* 9. The documented behaviour, stated over the model                      *)
(***************************************************************************)

\* The request has been answered after running the pipeline.
Answered == pc = "done" /\ text # ""

\* parseEventFromText has returned.
Parsed == pc \in {"url", "authoring", "respond", "done"} /\ text # ""

NoParse == [ok |-> FALSE, val |-> Undefined]

\* What JSON.parse makes of each reply, as <<reply, result>> pairs.
EnhanceParses == {<<r, JSONParse(StripFence(r.text))>> : r \in EnhanceReplies}

UrlParses == {<<r, JSONParse(StripFence(r.text))>> : r \in UrlReplies}

\* The result a table pairs with a reply.
Lookup(table, input) == (CHOOSE p \in table : p[1] = input)[2]

\* What JSON.parse makes of the enhancement reply, once there is one.
enhanceParse ==
    IF enhanceReply \in EnhanceReplies THEN Lookup(EnhanceParses, enhanceReply) ELSE NoParse

urlParse == IF urlReply \in UrlReplies THEN Lookup(UrlParses, urlReply) ELSE NoParse

\* The six declared fields of the event are those of the heuristic baseline.
SameFields == \A f \in EventFields : event[f] = basicEvent[f]

\* C1: for every recognised text, whatever the collaborator does, the pipeline
\* yields an event and a calendar URL that begins with the base prefix.
C1_PipelineYieldsUrl ==
    Answered =>
        /\ response = "success"
        /\ calendarUrl.t = "str"
        /\ StartsWith(calendarUrl.v, baseUrl)

\* C2: nothing that happens inside the four functions reaches the caller as a
\* failure: the handler never answers a non-empty text with the 500 response,
\* whatever the types of the fields of the reply.
C2_NeverServerError == text # "" => response # "error"

\* The reply to the URL request is an object whose url is a non-empty string
\* that starts with the base prefix and contains 'dates='.
UrlReplyAcceptable ==
    /\ urlReply.kind = "text"
    /\ urlParse.ok
    /\ urlParse.val.t = "obj"
    /\ Get(urlParse.val, "url").t = "str"
    /\ Get(urlParse.val, "url").v # ""
    /\ StartsWith(Get(urlParse.val, "url").v, baseUrl)
    /\ Includes(Get(urlParse.val, "url").v, "dates=")

\* C3: the URL returned is the AI-authored one exactly when the collaborator
\* is configured and its reply is acceptable; in every other case it is the
\* non-empty output of createGoogleCalendarUrl and the source is the builder.
C3_LinkStrategy ==
    Answered =>
        IF geminiClient /\ UrlReplyAcceptable
        THEN /\ response = "success"
             /\ calendarUrlSource = "gemini-url"
             /\ calendarUrl = Get(urlParse.val, "url")
        ELSE /\ response = "success"
             /\ calendarUrlSource = "builder"
             /\ built.path # "unbuilt"
             /\ built.url # ""
             /\ calendarUrl = Str(built.url)

\* C4, as documented: the source of a successful response is "builder" or
\* "ai-url".
C4_SourceAsDocumented ==
    response = "success" => calendarUrlSource \in {"builder", "ai-url"}

\* C4: in every successful response the reported source is one of exactly
\* two values, "builder" or "gemini-url".
C4_SourceIsBuilderOrGeminiUrl ==
    response = "success" => calendarUrlSource \in {"builder", "gemini-url"}

\* A request answered with the AI-authored link and its label.
C4_Witness ==
    /\ Answered
    /\ response = "success"
    /\ calendarUrlSource = "gemini-url"
    /\ built = NotBuilt

\* The enhancement call failed, or its reply is not valid JSON.
EnhanceUnparsable ==
    \/ enhanceReply.kind \in {"reject", "blocked"}
    \/ enhanceReply.kind = "text" /\ ~enhanceParse.ok

\* C5: when the enhancement reply is not valid JSON or the call fails, the
\* event returned equals the heuristic baseline field for field and carries
\* neither the used-enhancement flag nor a payload.
C5_UnparsableReplyGivesBaseline ==
    (Parsed /\ geminiClient /\ EnhanceUnparsable) =>
        /\ SameFields
        /\ ~event.gemini_used
        /\ event.geminiData = Undefined

\* A reply with a trailing comma has been received for a text with a title.
C5_Witness ==
    /\ Parsed
    /\ geminiClient
    /\ enhanceReply = Answer("{\"title\": \"Team Sync\", \"date\": \"10/03/2025\",}")
    /\ basicEvent.title # Str("")
    /\ event = basicEvent

\* The reply parsed, but not to an object whose members are strings or null.
ViolatesSchema(val) ==
    \/ val.t # "obj"
    \/ \E i \in 1..Len(val.kv) : val.kv[i][2].t \notin {"str", "null"}

\* C6: a reply that parses as JSON but violates the schema is treated as
\* unavailable: the event is the unmodified baseline and the flag is not set.
C6_SchemaViolationGivesBaseline ==
    (Parsed /\ geminiClient /\ enhanceReply.kind = "text" /\ enhanceParse.ok
        /\ ViolatesSchema(enhanceParse.val)) =>
        /\ event = basicEvent
        /\ ~event.gemini_used

\* Without a client: no collaborator call, the baseline event, no flag, and
\* the builder's URL.
NotConfiguredDegrades ==
    ~geminiClient =>
        /\ enhanceCalls = 0
        /\ urlCalls = 0
        /\ Parsed => event = basicEvent
        /\ ~event.gemini_used
        /\ Answered => (response = "success" /\ calendarUrlSource = "builder")

IsStampShaped(s) ==
    /\ Len(s) = 15
    /\ AllDigits(Sub(s, 1, 8))
    /\ CharAt(s, 9) = "T"
    /\ AllDigits(Sub(s, 10, 15))

\* The number a run of digits of a timestamp spells.
StampPart(s, from, to) == DigitsValue(Sub(s, from, to), 0)

\* A shaped timestamp that names a day of the calendar and a time of day.
IsValidStamp(s) ==
    /\ IsStampShaped(s)
    /\ StampPart(s, 5, 6) \in 1..12
    /\ StampPart(s, 7, 8) \in 1..DaysInMonth(StampPart(s, 1, 4), StampPart(s, 5, 6))
    /\ StampPart(s, 10, 11) < 24
    /\ StampPart(s, 12, 13) < 60
    /\ StampPart(s, 14, 15) < 60

\* The instant a is before the instant b, for two shaped timestamps.
StampBefore(a, b) ==
    \/ StampPart(a, 1, 8) < StampPart(b, 1, 8)
    \/ StampPart(a, 1, 8) = StampPart(b, 1, 8) /\ StampPart(a, 10, 15) < StampPart(b, 10, 15)

\* C8: whenever createGoogleCalendarUrl emits a start/end range, the end is
\* never before the start, for every start time and every explicit end time.
C8_EndNotBeforeStart ==
    (pc = "built" /\ built.path = "range"
        /\ IsStampShaped(built.start) /\ IsStampShaped(built.end)) =>
        ~StampBefore(built.end, built.start)

\* C9: every timestamp placed in the dates parameter, on the normal path and
\* on both fallbacks, has the shape YYYYMMDDTHHMMSS and names a valid date and
\* time of day.
C9_StampsWellFormed ==
    (pc = "built" /\ ~built.thrown /\ built.path \in {"range", "today", "basic"}) =>
        /\ IsValidStamp(built.start)
        /\ IsValidStamp(built.end)

\* C10: "10/03/2025" and "Oct 3, 2025" both give the date part 20251003 in the
\* range, whatever the clock and the local offset from UTC.
C10_SameCalendarDate ==
    (pc = "built" /\ event.date \in {Str("10/03/2025"), Str("Oct 3, 2025")}
        /\ event.time.t = "str"
        /\ Get(OrElse(event.geminiData, Obj(<<>>)), "end_time").t
              \in {"undefined", "null", "str"}) =>
        /\ built.path = "range"
        /\ Sub(built.start, 1, 8) = "20251003"
        /\ Sub(built.end, 1, 8) = "20251003"


\* createGoogleCalendarUrl has been called on its own and has returned or thrown.
Built == pc = "built"

\* The hour the documented rule gives: with a PM marker 12 more unless the
\* hour is 12, with an AM marker 0 for 12 and the hour itself otherwise.
RuledHour(h, marker) ==
    IF marker \in {" PM", " pm", " Pm", "PM"} THEN (IF h = 12 THEN 12 ELSE h + 12)
    ELSE IF h = 12 THEN 0 ELSE h

\* The 24-hour time the documented rule gives for TimeText(h, mm, marker),
\* without its colon.
RuledTime(h, mm, marker) ==
    (IF marker = "" THEN NatToString(h) ELSE PadStart2(NatToString(RuledHour(h, marker))))
        \o (IF mm = "" THEN "00" ELSE mm)

\* C11: convertTo24h gives 12:00 for a missing or empty value, applies the PM
\* and AM hour rules whatever the case of the marker, keeping the minutes or
\* assuming :00, and takes a value without marker as 24-hour time, with :00
\* appended when it has no colon; "2:30 PM" gives 14:30, "12 AM" 00:00 and
\* "12 PM" 12:00.
C11_ConvertTo24h ==
    /\ convertTo24h(Undefined) = Returned("12:00")
    /\ convertTo24h(Null) = Returned("12:00")
    /\ convertTo24h(Str("2:30 PM")) = Returned("14:30")
    /\ convertTo24h(Str("12 AM")) = Returned("00:00")
    /\ convertTo24h(Str("12 PM")) = Returned("12:00")
    /\ Built =>
        /\ built.path = "range"
        /\ event.time = Str("") => built.start = "20251003T120000"
        /\ \A h \in ClockHours, mm \in ClockMinutes, marker \in ClockMarkers :
              event.time = Str(TimeText(h, mm, marker)) =>
                  built.start = "20251003T" \o RuledTime(h, mm, marker) \o "00"

\* "12 pm" has been converted, as the start of a heuristic event.
C11_Witness ==
    /\ Built
    /\ ~event.gemini_used
    /\ event.time = Str("12:30 pm")
    /\ built.start = "20251003T123000"


\* The time one hour after RuledTime(h, mm, marker) on a 24-hour dial, with
\* the same minutes.
RuledHourLater(h, mm, marker) ==
    PadStart2(NatToString(((IF marker = "" THEN h ELSE RuledHour(h, marker)) + 1) % 24))
        \o (IF mm = "" THEN "00" ELSE mm)

\* C12: without an explicit end time the end is the start plus exactly one
\* hour, with the minutes of the start, on the date of the start, and 23
\* wraps to 00; an explicit end time is used instead, converted as the start
\* is.
C12_EndIsHourLater ==
    Built =>
        /\ event.gemini_used /\ Get(event.geminiData, "end_time") = Str("4 PM")
              => built.end = "20251003T160000"
        /\ ~event.gemini_used =>
              \A h \in ClockHours, mm \in ClockMinutes, marker \in ClockMarkers :
                  event.time = Str(TimeText(h, mm, marker)) =>
                      built.end = "20251003T" \o RuledHourLater(h, mm, marker) \o "00"


\* The processing date as the fallback writes it, YYYYMMDD.
TodayCompact == RemoveAll(IsoDateString(clock.today), "-")

\* C13: for a non-empty date string, when the date does not parse (a string
\* with '/' that has not three parts, or one the Date parser rejects) or an
\* exception occurs while date and time are normalised, the range emitted is
\* today T120000 / today T130000 and no exception escapes.
C13_FailureGivesTodayNoon ==
    /\ Built
    /\ event.date.t = "str"
    /\ event.date.v # ""
    /\ \/ ~isoDateOf(event.date, clock).found
       \/ built.path = "basic"
       \/ built.thrown
    => /\ ~built.thrown
       /\ built.start = TodayCompact \o "T120000"
       /\ built.end = TodayCompact \o "T130000"


\* C14: createGoogleCalendarUrl is deterministic: the URL returned for an
\* event is the URL a call with the same event returns on any other day and
\* under any other local clock, daylight-saving transition included.
C14_SameEventSameUrl ==
    Built =>
        \A d \in 1..MaxDay, o \in Offsets :
            createGoogleCalendarUrl(event, ClockAt(d, o)).url = built.url


\* The parameters appended to the base URL, as the "name=value" pieces
\* between the '&' of the URL returned.
QueryParams == Split(Sub(built.url, Len(baseUrl) + 2, Len(built.url)), "&")

ParamName(p) == Sub(p, 1, IndexOf(p, "=") - 1)

ParamValue(p) == Sub(p, IndexOf(p, "=") + 1, Len(p))

\* The place of a parameter in the documented order, 0 for any other name.
ParamRank(name) ==
    LeastOf({i \in 1..5 : <<"text", "dates", "location", "details", "ctz">>[i] = name}, 0)

HasParam(name) == \E i \in 1..Len(QueryParams) : ParamName(QueryParams[i]) = name

\* Text as percent-encoding leaves it: unreserved characters and %XX
\* escapes, and the characters of `also`.
IsPercentEncoded(s, also) ==
    \A i \in 1..Len(s) :
        \/ CharAt(s, i) \in Unreserved \cup also
        \/ /\ CharAt(s, i) = "%"
           /\ i + 2 <= Len(s)
           /\ \A k \in {i + 1, i + 2} : Includes("0123456789ABCDEF", CharAt(s, k))

\* C15: the parameters of the URL come in the order text, dates, location,
\* details, ctz, none of them twice; text, location and details are there
\* exactly when the field of the event is not empty; every value is
\* percent-encoded (the range of dates keeps the '/' between its two stamps).
C15_ParamsOrderedAndEncoded ==
    Built /\ ~built.thrown =>
        /\ StartsWith(built.url, baseUrl)
        /\ \A i \in 1..Len(QueryParams) : ParamRank(ParamName(QueryParams[i])) > 0
        /\ \A i, j \in 1..Len(QueryParams) :
              i < j => ParamRank(ParamName(QueryParams[i])) < ParamRank(ParamName(QueryParams[j]))
        /\ HasParam("text") <=> Truthy(event.title)
        /\ HasParam("location") <=> Truthy(event.location)
        /\ HasParam("details") <=> Truthy(event.description)
        /\ \A i \in 1..Len(QueryParams) :
              IsPercentEncoded(ParamValue(QueryParams[i]),
                               IF ParamName(QueryParams[i]) = "dates" THEN {"/"} ELSE {})


\* The timezone the enhancement payload of the event supplies, America/New_York
\* when it supplies none or the event has no payload.
SuppliedTimezone ==
    IF Truthy(Get(event.geminiData, "timezone")) THEN Get(event.geminiData, "timezone")
    ELSE Str("America/New_York")

\* C16: every URL returned has exactly one ctz parameter, the last one, and
\* its value is the timezone of the enhancement payload when the payload has
\* one and America/New_York otherwise, as for every heuristic event.
C16_OneTimezoneLast ==
    built.path # "unbuilt" /\ ~built.thrown =>
        /\ Cardinality({i \in 1..Len(QueryParams) : ParamName(QueryParams[i]) = "ctz"}) = 1
        /\ QueryParams[Len(QueryParams)]
              = "ctz=" \o encodeURIComponent(ToJSString(SuppliedTimezone))
        /\ ~event.gemini_used =>
              QueryParams[Len(QueryParams)] = "ctz=America%2FNew_York"


\* The builder has returned a URL for an event with no title, date, location
\* or description and no timezone.
BuiltFromNoFields ==
    /\ built.path # "unbuilt"
    /\ ~built.thrown
    /\ \A f \in {"title", "date", "location", "description"} : ~Truthy(event[f])
    /\ ~Truthy(Get(event.geminiData, "timezone"))

\* C17, as documented: for an event with no field present the URL returned
\* is the bare base URL, with no parameter appended.
C17_NoFieldsGivesBaseUrl == BuiltFromNoFields => built.url = baseUrl

\* C17, as the code has it: for an event with no field present the URL
\* returned is the base URL with the default timezone as its only parameter.
C17_NoFieldsGivesTimezoneOnly ==
    BuiltFromNoFields => built.url = baseUrl \o "&ctz=America%2FNew_York"

\* A request whose text is blank has had its link built.
C17_Witness ==
    /\ BuiltFromNoFields
    /\ pc = "done"
    /\ event = CalendarEvent
    /\ built.path = "none"


\* The four lines of the documented example.
TeamSyncText == "Team Sync\nOct 3, 2025\n2:30 PM to 4:00 PM\nRoom 204"

EndsWith(s, suffix) == Sub(s, Len(s) - Len(suffix) + 1, Len(s)) = suffix

\* C18: for the text 'Team Sync', 'Oct 3, 2025', '2:30 PM to 4:00 PM',
\* 'Room 204' without enhancement, the baseline event has the title 'Team
\* Sync', a date, the time '2:30 PM', the location 'Room 204' and no
\* description, and the URL built has text=Team%20Sync, a range of dates from
\* ...T143000 to ...T153000 and location=Room%20204.
C18_TeamSyncExample ==
    text = TeamSyncText /\ ~geminiClient /\ built.path # "unbuilt" =>
        /\ basicEvent.title = Str("Team Sync")
        /\ basicEvent.date.t = "str" /\ basicEvent.date.v # ""
        /\ basicEvent.time = Str("2:30 PM")
        /\ basicEvent.location = Str("Room 204")
        /\ basicEvent.description = Str("")
        /\ event = basicEvent
        /\ ~built.thrown
        /\ Includes(built.url, "text=Team%20Sync")
        /\ Includes(built.url, "dates=" \o built.start \o "/" \o built.end)
        /\ EndsWith(built.start, "T143000")
        /\ EndsWith(built.end, "T153000")
        /\ Includes(built.url, "location=Room%20204")


\* The handler is waiting for an answer of the collaborator.
Waiting == pc \in {"enhancing", "authoring"}

\* C19: the wait for the collaborator is bounded: a request that waits for
\* an enhancement or a URL answer is eventually completed, whether or not
\* the answer ever comes.
C19_WaitIsBounded == Waiting ~> (pc = "done")


\* A call of the collaborator has failed: rejected, or answered with nothing
\* to read.
Failed(reply) == reply.kind \in {"reject", "blocked"}

\* C20: in one request the collaborator is called at most once for the
\* enhancement and at most once for the URL, the URL call goes out only
\* after the enhancement has returned, and a failed call is not made again:
\* the baseline event, then the builder's URL, take its place.
C20_OneCallEachNoRetry ==
    /\ enhanceCalls <= 1
    /\ urlCalls <= 1
    /\ urlCalls = 1 => enhanceCalls = 1 /\ enhanceReply # NoReply
    /\ enhanceReply # NoReply => enhanceCalls = 1 /\ pc # "enhancing"
    /\ Failed(enhanceReply) => event = basicEvent
    /\ Failed(urlReply) =>
          /\ urlCalls = 1
          /\ pc \in {"respond", "done"}
          /\ pc = "respond" => calendarUrl = Null
          /\ pc = "done" => built.path # "unbuilt"

\* Both calls have failed once each and the request has been answered with
\* the builder's URL for the baseline event.
C20_Witness ==
    /\ pc = "done"
    /\ Failed(enhanceReply)
    /\ Failed(urlReply)
    /\ enhanceCalls = 1
    /\ urlCalls = 1
    /\ event = basicEvent
    /\ response = "success"
    /\ calendarUrl = Str(built.url)


\* The event a request with this text has when it runs alone: the heuristic
\* event, enhanced by the reply when there is a client.
AloneEvent(fullText, client, reply) ==
    IF client THEN enhanceEventWithGemini(HeuristicEvent(Trim(fullText)), reply)
    ELSE HeuristicEvent(Trim(fullText))

\* The URL and its source for that event when the request runs alone: the
\* collaborator's URL when it is accepted, else the builder's.
AloneLink(ownEvent, aiUrl, builder) ==
    IF Truthy(aiUrl) THEN <<aiUrl, calendarUrlSourceOf(aiUrl, FALSE)>>
    ELSE IF builder.thrown THEN <<aiUrl, calendarUrlSourceOf(aiUrl, FALSE)>>
    ELSE <<Str(builder.url), calendarUrlSourceOf(aiUrl, TRUE)>>

\* The request has the event, URL and source of a request running alone,
\* whose event is `alone`.
SameAsAlone(req, alone, client, now) ==
    /\ req.event = alone
    /\ <<req.calendarUrl, req.calendarUrlSource>>
          = AloneLink(alone,
                      IF client THEN generateCalendarUrlWithGemini(req.urlReply) ELSE Null,
                      createGoogleCalendarUrl(alone, now))

\* C21: two requests in flight together do not interfere: whatever the
\* order of their steps, each request that has been answered has the event,
\* the URL and the URL source it has when it runs alone with the same text,
\* the same replies of the collaborator and the same clock.
C21_RequestsDoNotInterfere ==
    pc = "pair" =>
        \A i \in Requesters :
            requests[i].pc = "done" =>
                SameAsAlone(requests[i],
                            AloneEvent(requests[i].text, geminiClient, requests[i].enhanceReply),
                            geminiClient, clock)

\* Two requests with different texts and different replies have both been
\* answered, the second one first having waited for the first.
C21_Witness ==
    /\ pc = "pair"
    /\ geminiClient
    /\ \A i \in Requesters : requests[i].pc = "done" /\ requests[i].response = "success"
    /\ requests[1].text # requests[2].text
    /\ requests[1].event # requests[2].event
    /\ requests[1].enhanceReply.kind = "reject"
    /\ requests[2].enhanceReply.kind = "text"
    /\ requests[1].calendarUrlSource # requests[2].calendarUrlSource


\* The enhancement has succeeded: the event is the merged one.
Enhanced == Parsed /\ event.gemini_used

\* C22: the merge is per field: each of title, date, location, description
\* and duration holds the value of the reply when that value is not null, an
\* empty string included, and the value of the baseline when it is null or
\* missing; never anything else.
C22_MergePerField ==
    Enhanced =>
        \A f \in {"title", "date", "location", "description", "duration"} :
            IF Get(event.geminiData, f) \in {Null, Undefined}
            THEN event[f] = basicEvent[f]
            ELSE event[f] = Get(event.geminiData, f)


\* The primary time the documented merge gives: start_time when the reply
\* has one, else its legacy time when it has one, else the baseline's.
MergedTime ==
    IF Truthy(Get(event.geminiData, "start_time")) THEN Get(event.geminiData, "start_time")
    ELSE IF Truthy(Get(event.geminiData, "time")) THEN Get(event.geminiData, "time")
    ELSE basicEvent.time

\* C23: after a successful enhancement the time of the event is the reply's
\* start_time when present, else the reply's time when present, else the
\* baseline time, and the start of the range of dates the builder writes is
\* made from that same time.
C23_TimeMerge ==
    Enhanced =>
        /\ event.time = MergedTime
        /\ built.path = "range" =>
              EndsWith(built.start,
                       "T" \o ReplaceFirst(convertTo24h(MergedTime).text, ":", "") \o "00")

\* The reply had a start_time, the baseline another time, and the builder
\* has written the range from the reply's.
C23_Witness ==
    /\ Enhanced
    /\ Get(event.geminiData, "start_time") = Str("2:30 PM")
    /\ basicEvent.time = Str("9:30")
    /\ event.time = Str("2:30 PM")
    /\ built.path = "range"
    /\ built.start = "20251003T143000"


\* C24: enhanceEventWithGemini never changes the baseline event it is given:
\* when the call is rejected, when the reply does not parse and when the
\* merge succeeds the baseline is after the call what it was before, without
\* a client the baseline itself is returned as it was built, and the event
\* of a successful merge is another record than the baseline.
C24_BaselineUntouched ==
    [][/\ pc = "enhancing" => basicEvent' = basicEvent
       /\ pc = "enhancing" /\ pc' = "url" =>
              /\ event'.gemini_used => event' # basicEvent'
              /\ ~event'.gemini_used => event' = basicEvent'
       /\ pc = "ocr" /\ pc' = "url" =>
              /\ event' = basicEvent'
              /\ ~basicEvent'.gemini_used
              /\ basicEvent'.geminiData = Undefined]_vars

\* A merge has succeeded and changed the title, and the baseline still has
\* its own title and no mark of the enhancement.
C24_Witness ==
    /\ Enhanced
    /\ event.title = Str("Weekly Sync")
    /\ basicEvent.title = Str("Team Sync")
    /\ ~basicEvent.gemini_used
    /\ basicEvent.geminiData = Undefined


\* The heuristic event has just been built from the text.
BaselineBuilt == text # "" /\ (pc = "enhancing" \/ (pc = "url" /\ ~geminiClient))

\* The lines of a description.
DescriptionLines(description) == IF description = "" THEN <<>> ELSE Split(description, "\n")

\* `part` is made of lines of `whole`, in the order they have there.
InSourceOrder(part, whole) ==
    \E at \in [1..Len(part) -> 1..Len(whole)] :
        /\ \A i \in 1..Len(part) : whole[at[i]] = part[i]
        /\ \A i, j \in 1..Len(part) : i < j => at[i] < at[j]

\* C25: the description of the baseline is at most three of the trimmed
\* non-empty lines of the text, in their order, joined by newlines, and none
\* of them is the line taken as title, the line taken as location, or a line
\* that matches a date or a time pattern.
C25_DescriptionLines ==
    BaselineBuilt =>
        LET lines == DescriptionLines(basicEvent.description.v)
        IN  /\ Len(lines) <= 3
            /\ InSourceOrder(lines, TextLines(text))
            /\ \A i \in 1..Len(lines) :
                  /\ lines[i] # basicEvent.title.v
                  /\ lines[i] # basicEvent.location.v
                  /\ ~SomePatternTests(datePatterns, lines[i])
                  /\ ~SomePatternTests(timePatterns, lines[i])

\* A text with four lines left over has had three of them taken.
C25_Witness ==
    /\ BaselineBuilt
    /\ basicEvent.title = Str("Gala night")
    /\ basicEvent.location = Str("Room 12")
    /\ basicEvent.time = Str("7 PM")
    /\ basicEvent.description = Str("Doors open\nBring a friend\nWear a hat")


\* C26: createGoogleCalendarUrl emits a dates parameter exactly when the
\* date of the event is a non-empty string: none at all for an event with a
\* time and no date, the current date not standing in, and exactly one for
\* every event with a date.
C26_DatesIffDate ==
    Built /\ event.date.t = "str" =>
        /\ ~built.thrown
        /\ event.date.v = "" =>
              /\ built.path = "none"
              /\ ~Includes(built.url, "dates=")
        /\ event.date.v # "" =>
              /\ built.path # "none"
              /\ Cardinality({i \in 1..Len(built.url) :
                                StartsWithAt(built.url,
                                             "&dates=" \o built.start \o "/" \o built.end \o "&",
                                             i)}) = 1

\* An event with a time and no date has been given a URL without dates.
C26_Witness ==
    /\ Built
    /\ event.date = Str("")
    /\ event.time = Str("2:30 PM")
    /\ built.url = baseUrl \o "&text=Team%20Sync&ctz=America%2FNew_York"

====
